---- MODULE Spec2Model ----
(***************************************************************************)
(* A model of sunpycube.spectra.spectrum.Spectrum: a one-dimensional       *)
(* spectrum (data, axis, axis_unit, optional uncertainty and mask) with    *)
(* unit-aware indexing (__getitem__, _intify_slice, _qty_to_pixel), axis   *)
(* transformation (shift_axis, map_to_axis) and the Gaussian line fit      *)
(* (gaussian_fit, _make_line_guess).                                       *)
(*                                                                         *)
(* numpy arrays are buffers on a heap and an array object is a VIEW of a   *)
(* buffer (buf, off, stride, len): basic slicing of an ndarray returns a   *)
(* view, and `a += x` writes through the view into the buffer.             *)
(*                                                                         *)
(* Axis magnitudes are binary floating-point numbers. The model keeps the  *)
(* integer-valued ones and rounds every arithmetic result to MantBits      *)
(* significant bits (round to nearest, ties to even), as IEEE-754 does     *)
(* with 53.                                                                *)
(***************************************************************************)
EXTENDS Integers, Sequences, FiniteSets

\* ------------------------------------------------------------------ bounds
\* Longest spectrum.
MaxLen == 3
\* Largest axis sample of a freshly constructed spectrum.
MaxAxis == 2
\* Significand width of the modelled floating-point format.
MantBits == 2
\* Largest magnitude of a shift_axis offset.
MaxShift == 3
\* Number of axis mutations (shift_axis, map_to_axis) in one run.
MaxMut == 2
\* Largest data sample of a spectrum that is fitted.
MaxData == 2

\* ------------------------------------------------------------------ values
None == [t |-> "None"]
Int_(v) == [t |-> "int", v |-> v]
Float_(v) == [t |-> "float", v |-> v]
\* astropy Quantity: a magnitude and a unit.
Qty(v, unit) == [t |-> "qty", v |-> v, unit |-> unit]
\* A numpy scalar read out of a float array (an axis sample).
NpFloat(v) == [t |-> "npfloat", v |-> v]
Arr(a) == [t |-> "array", a |-> a]

\* Two commensurable length units: 1 L2 = 2 L.
Units == {"L", "L2"}
UnitScale == [L |-> 1, L2 |-> 2]

Abs(x) == IF x < 0 THEN -x ELSE x

RECURSIVE Pow2(_)
Pow2(n) == IF n = 0 THEN 1 ELSE 2 * Pow2(n - 1)

\* The spacing of the floating-point numbers around magnitude a >= 0.
RECURSIVE Quantum(_, _)
Quantum(a, q) == IF a < Pow2(MantBits) * q THEN q ELSE Quantum(a, 2 * q)

Ulp(x) == Quantum(Abs(x), 1)

RoundAbs(a) ==
  LET q == Quantum(a, 1)
      m == a \div q
      r == a % q
  IN  IF 2 * r < q THEN m * q
      ELSE IF 2 * r > q THEN (m + 1) * q
      ELSE IF m % 2 = 0 THEN m * q ELSE (m + 1) * q

\* Rounding of an exact result to the floating-point format.
Fl(x) == IF x < 0 THEN -RoundAbs(-x) ELSE RoundAbs(x)

Representable(x) == Fl(x) = x

FAdd(a, b) == Fl(a + b)
FSub(a, b) == Fl(a - b)

\* Quantity.to(unit).value, for a quantity whose magnitude converts exactly.
Convertible(q, unit) == (q.v * UnitScale[q.unit]) % UnitScale[unit] = 0
To(q, unit) == Fl((q.v * UnitScale[q.unit]) \div UnitScale[unit])

\* ------------------------------------------------------------------ arrays
\* Buffer 0 holds the data samples, buffers 1 and 2 hold axis samples.
DataBuf == 0
AxisBufs == {1, 2}

View(buf, off, stride, len) == [buf |-> buf, off |-> off, stride |-> stride, len |-> len]
FullView(buf, len) == View(buf, 0, 1, len)

\* Position (1-based, in the buffer) of element j (0-based) of a view.
Pos(v, j) == v.off + j * v.stride + 1

\* The contents of an array object.
Deref(h, v) == [j \in 1..v.len |-> h[v.buf][Pos(v, j - 1)]]

Ret(v) == [kind |-> "value", v |-> v]
Raise(e) == [kind |-> e]

\* ndarray[i] for a Python int i: negative indices count from the end.
NdIndexInt(h, v, i) ==
  IF -v.len <= i /\ i < v.len
  THEN Ret(h[v.buf][Pos(v, IF i < 0 THEN i + v.len ELSE i)])
  ELSE Raise("IndexError")

\* ndarray[x] for a numpy float scalar x: numpy before 1.12 truncates x to an
\* integer (with a deprecation warning), later versions raise IndexError.
NdIndexFloat(h, v, x, legacy) ==
  IF legacy THEN NdIndexInt(h, v, x) ELSE Raise("IndexError")

\* slice(start, stop, step).indices(len) of Python, start and stop an int or None.
SliceStart(start, step, len) ==
  IF start.t = "None" THEN (IF step > 0 THEN 0 ELSE len - 1)
  ELSE LET s == IF start.v < 0 THEN start.v + len ELSE start.v
       IN  IF s < 0 THEN (IF step > 0 THEN 0 ELSE -1)
           ELSE IF s >= len THEN (IF step > 0 THEN len ELSE len - 1)
           ELSE s

SliceStop(stop, step, len) ==
  IF stop.t = "None" THEN (IF step > 0 THEN len ELSE -1)
  ELSE LET s == IF stop.v < 0 THEN stop.v + len ELSE stop.v
       IN  IF s < 0 THEN (IF step > 0 THEN 0 ELSE -1)
           ELSE IF s >= len THEN (IF step > 0 THEN len ELSE len - 1)
           ELSE s

SliceLen(lo, hi, step) ==
  IF step > 0 THEN (IF hi > lo THEN (hi - lo - 1) \div step + 1 ELSE 0)
  ELSE (IF hi < lo THEN (lo - hi - 1) \div (-step) + 1 ELSE 0)

\* ndarray.__getitem__(slice) with integer (or None) bounds: a view of the same
\* buffer.
SliceView(v, start, stop, step) ==
  LET lo == SliceStart(start, step, v.len)
      hi == SliceStop(stop, step, v.len)
  IN  View(v.buf, v.off + lo * v.stride, v.stride * step, SliceLen(lo, hi, step))

\* A slice bound as the array sees it: a numpy float scalar is truncated to an
\* integer by numpy before 1.12.
AsIndex(b) == IF b.t = "npfloat" THEN Int_(b.v) ELSE b

\* ndarray.__getitem__(slice(start, stop, step)), step a Python int.
NdSlice(v, sl, legacy) ==
  IF sl.step.v = 0 THEN Raise("ValueError")
  ELSE IF ~legacy /\ (sl.start.t = "npfloat" \/ sl.stop.t = "npfloat")
       THEN Raise("TypeError")
  ELSE [kind |-> "view",
        v |-> SliceView(v, AsIndex(sl.start), AsIndex(sl.stop), sl.step.v)]

\* Mutant of ArgMin: the last of the smallest elements.
ArgMinLast(d) ==
  CHOOSE k \in 1..Len(d) :
    /\ \A j \in 1..Len(d) : d[k] <= d[j]
    /\ \A j \in (k + 1)..Len(d) : d[j] > d[k]

\* numpy argmin: the first index (1-based here) of the smallest element.
ArgMin(d) ==
  CHOOSE k \in 1..Len(d) :
    /\ \A j \in 1..Len(d) : d[k] <= d[j]
    /\ \A j \in 1..(k - 1) : d[j] > d[k]

ArgMax(d) ==
  CHOOSE k \in 1..Len(d) :
    /\ \A j \in 1..Len(d) : d[k] >= d[j]
    /\ \A j \in 1..(k - 1) : d[j] < d[k]

\* ---------------------------------------------------------------- Spectrum
\* Spectrum.__init__: the arrays are stored as given, not copied.
__init__(data, axis, axis_unit, uncertainty, mask) ==
  [data |-> data, axis |-> axis, axis_unit |-> axis_unit,
   uncertainty |-> uncertainty, mask |-> mask]

\* np.abs(self.axis - value)
AxisDiffs(h, self, value) ==
  [j \in 1..self.axis.len |-> Abs(FSub(Deref(h, self.axis)[j], value))]

\* Spectrum._qty_to_pixel: the axis SAMPLE closest to the quantity.
\* `self.axis - None` raises TypeError; argmin of an empty array raises
\* ValueError.
_qty_to_pixel(h, self, quantity) ==
  IF quantity.t = "None" THEN Raise("TypeError")
  ELSE IF self.axis.len = 0 THEN Raise("ValueError")
  ELSE LET value == IF quantity.t = "qty" THEN To(quantity, self.axis_unit)
                    ELSE quantity.v
           closest_index == ArgMin(AxisDiffs(h, self, value))
       IN  Ret(NpFloat(Deref(h, self.axis)[closest_index]))

\* Mutant of SliceUnit: plain integer bounds are taken for axis values in the
\* spectrum's own unit.
SliceUnitIntAsValue(self, start, stop) ==
  IF start.t = "int" /\ stop.t = "int"
  THEN [unit |-> self.axis_unit, start |-> Qty(start.v, self.axis_unit),
        stop |-> Qty(stop.v, self.axis_unit)]
  ELSE [unit |-> "None", start |-> start, stop |-> stop]

\* The unit inference of _intify_slice (lines 225-249): the unit ("None" when
\* no unit is involved) and the two bounds after `*= unit`.
SliceUnit(self, start, stop) ==
  CASE start.t = "qty" ->
         [unit |-> start.unit, start |-> start,
          stop |-> IF stop.t \in {"int", "float"} THEN Qty(stop.v, start.unit)
                   ELSE stop]
    [] start.t = "float" ->
         IF stop.t = "qty"
         THEN [unit |-> stop.unit, start |-> Qty(start.v, stop.unit), stop |-> stop]
         ELSE [unit |-> self.axis_unit, start |-> Qty(start.v, self.axis_unit),
               stop |-> IF stop.t # "None" THEN Qty(stop.v, self.axis_unit)
                        ELSE None]
    [] start.t = "int" ->
         IF stop.t = "qty"
         THEN [unit |-> stop.unit, start |-> Qty(start.v, stop.unit), stop |-> stop]
         ELSE IF stop.t = "float"
         THEN [unit |-> self.axis_unit, start |-> Qty(start.v, self.axis_unit),
               stop |-> Qty(stop.v, self.axis_unit)]
         ELSE [unit |-> "None", start |-> start, stop |-> stop]
    [] OTHER ->
         IF stop.t = "qty"
         THEN [unit |-> stop.unit, start |-> start, stop |-> stop]
         ELSE IF stop.t = "float"
         THEN [unit |-> self.axis_unit, start |-> start,
               stop |-> Qty(stop.v, self.axis_unit)]
         ELSE [unit |-> "None", start |-> start, stop |-> stop]

\* Mutant of _intify_slice: the step is checked after the bounds were converted.
_intify_slice_late_step_check(h, self, item) ==
  LET u == SliceUnit(self, item.start, item.stop)
      p == _qty_to_pixel(h, self, u.start)
      q == _qty_to_pixel(h, self, u.stop)
  IN  IF u.unit # "None" /\ p.kind # "value" THEN [kind |-> p.kind, lookups |-> 1]
      ELSE IF u.unit # "None" /\ q.kind # "value" THEN [kind |-> q.kind, lookups |-> 2]
      ELSE IF item.step.t # "int"
           THEN [kind |-> "IndexError", lookups |-> IF u.unit # "None" THEN 2 ELSE 0]
      ELSE IF u.unit # "None"
           THEN [kind |-> "slice", start |-> p.v, stop |-> q.v,
                 step |-> item.step, lookups |-> 2]
      ELSE [kind |-> "slice", start |-> u.start, stop |-> u.stop,
            step |-> item.step, lookups |-> 0]

\* Spectrum._intify_slice. The result carries the number of _qty_to_pixel
\* calls made (lookups).
_intify_slice(h, self, item) ==
  IF item.step.t # "int" THEN [kind |-> "IndexError", lookups |-> 0]
  ELSE LET u == SliceUnit(self, item.start, item.stop)
       IN  IF u.unit = "None"
           THEN [kind |-> "slice", start |-> u.start, stop |-> u.stop,
                 step |-> item.step, lookups |-> 0]
           ELSE LET p == _qty_to_pixel(h, self, u.start)
                    q == _qty_to_pixel(h, self, u.stop)
                IN  IF p.kind # "value" THEN [kind |-> p.kind, lookups |-> 1]
                    ELSE IF q.kind # "value" THEN [kind |-> q.kind, lookups |-> 2]
                    ELSE [kind |-> "slice", start |-> p.v, stop |-> q.v,
                          step |-> item.step, lookups |-> 2]

\* Spectrum.__getitem__. legacy: whether the numpy of the build accepts a float
\* scalar as an index or slice bound. The result is the returned value (or the
\* exception), the number of nearest-pixel lookups made and, for a slice, the
\* new Spectrum.
Result(r, lookups, new) == [ret |-> r, lookups |-> lookups, new |-> new]

\* Mutant of getitem_int: the axis is indexed instead of the data.
getitem_int_axis(h, self, item) == Result(NdIndexInt(h, self.axis, item.v), 0, None)

\* line 195: return self.data[item]
getitem_int(h, self, item) == Result(NdIndexInt(h, self.data, item.v), 0, None)

\* lines 197 and 199: return self.data[self._qty_to_pixel(quantity)]
getitem_qty(h, self, quantity, legacy) ==
  LET p == _qty_to_pixel(h, self, quantity)
  IN  IF p.kind # "value" THEN Result(p, 1, None)
      ELSE Result(NdIndexFloat(h, self.data, p.v.v, legacy), 1, None)

\* lines 201-204: the slice of data and of axis, wrapped in a new Spectrum.
getitem_slice(h, self, item, legacy) ==
  LET intslice == _intify_slice(h, self, item)
  IN  IF intslice.kind # "slice"
      THEN Result(Raise(intslice.kind), intslice.lookups, None)
      ELSE LET newdata == NdSlice(self.data, intslice, legacy)
               newaxis == NdSlice(self.axis, intslice, legacy)
           IN  IF newdata.kind # "view"
               THEN Result(newdata, intslice.lookups, None)
               ELSE Result([kind |-> "Spectrum"], intslice.lookups,
                           __init__(newdata.v, newaxis.v, self.axis_unit, None, None))

__getitem__(h, self, item, legacy) ==
  CASE item.t = "int" -> getitem_int(h, self, item)
    [] item.t = "float" -> getitem_qty(h, self, Qty(item.v, self.axis_unit), legacy)
    [] item.t = "qty" -> getitem_qty(h, self, item, legacy)
    [] item.t = "slice" -> getitem_slice(h, self, item, legacy)
    [] item.t = "tuple" -> Result(Raise("IndexError"), 0, None)
    [] OTHER -> Result(Raise("IndexError"), 0, None)

\* The buffer positions (1-based) an array object covers.
Covered(v) == {Pos(v, j) : j \in 0..(v.len - 1)}

\* ndarray `a += d`: every element of the view is replaced, in the buffer, by
\* the rounded sum.
NdIAdd(h, v, d) ==
  [h EXCEPT ![v.buf] =
     [p \in DOMAIN @ |-> IF p \in Covered(v) THEN FAdd(@[p], d) ELSE @[p]]]

\* Mutant of shift_axis: the axis is moved by the magnitude of the offset.
shift_axis_abs(h, self, offset) ==
  NdIAdd(h, self.axis,
         Abs(To(IF offset.t = "qty" THEN offset ELSE Qty(offset.v, self.axis_unit),
                self.axis_unit)))

\* Spectrum.shift_axis: the heap after `self.axis += offset.to(self.axis_unit)`,
\* a bare offset being multiplied by self.axis_unit first.
shift_axis(h, self, offset) ==
  NdIAdd(h, self.axis,
         To(IF offset.t = "qty" THEN offset ELSE Qty(offset.v, self.axis_unit),
            self.axis_unit))

\* The functions from Quantity to Quantity handed to map_to_axis.
Funs == {"identity", "successor"}
ApplyFun(fun, x) ==
  IF fun = "identity" THEN x ELSE Qty(FAdd(x.v, 1), x.unit)

\* Spectrum.map_to_axis: the new list of magnitudes, which self.axis is then
\* bound to (the old array is not written).
map_to_axis(h, self, fun) ==
  [j \in 1..self.axis.len |->
     ApplyFun(fun, Qty(Deref(h, self.axis)[j], self.axis_unit)).v]

\* ------------------------------------------------------------- line fitter
SeqMax(d) == d[ArgMax(d)]

\* d[k:] for a 0-based k.
From(d, k) == [j \in 1..(Len(d) - k) |-> d[j + k]]

\* Spectrum._make_line_guess. np.abs(self.data - amp / 2) is kept doubled,
\* |2 data - amp|, which orders the samples the same way (the data are floats:
\* amp / 2 is exact). rval and lval are 0-based positions.
_make_line_guess(h, self) ==
  LET data == Deref(h, self.data)
      axis == Deref(h, self.axis)
      amp == SeqMax(data)
      argamp == ArgMax(data) - 1
      mean == axis[argamp + 1]
      diffs == [j \in 1..Len(data) |-> Abs(2 * data[j] - amp)]
      rval == IF Len(From(diffs, argamp)) > 0 THEN ArgMin(From(diffs, argamp)) - 1
              ELSE Len(diffs) - 1
      lval == IF argamp > 0 THEN ArgMin(From(diffs, argamp)) - 1 ELSE 0
      stddev == FSub(axis[rval + 1], axis[lval + 1])
  IN  [amp |-> amp, mean |-> mean, stddev |-> stddev]

\* A weight: the number num / den.
Weight(num, den) == [num |-> num, den |-> den]

\* Lines 152-156: weights = 1 / errors; weights[self.mask] = 0. With
\* self.mask None the index is numpy's newaxis and the assignment covers
\* every weight.
FitWeights(self) ==
  IF self.uncertainty = None THEN None
  ELSE Arr([j \in 1..Len(self.uncertainty.a) |->
              IF self.mask = None \/ self.mask.a[j] THEN Weight(0, 1)
              ELSE Weight(1, self.uncertainty.a[j])])

\* Spectrum.gaussian_fit, up to the call of the solver: what the solver is
\* handed (the components of g_init, fit_axis, fit_data, weights), or the
\* exception raised before.
gaussian_fit(h, self, line_guess, extra_lines, x_range, legacy) ==
  LET guess == IF line_guess = None THEN _make_line_guess(h, self)
               ELSE line_guess.g
      g_init == <<guess>> \o extra_lines
      arrmin == _qty_to_pixel(h, self, x_range.lo)
      arrmax == _qty_to_pixel(h, self, x_range.hi)
      sl == [start |-> arrmin.v, stop |-> arrmax.v, step |-> Int_(1)]
      fit_axis == IF x_range = None THEN [kind |-> "view", v |-> self.axis]
                  ELSE NdSlice(self.axis, sl, legacy)
      fit_data == IF x_range = None THEN [kind |-> "view", v |-> self.data]
                  ELSE NdSlice(self.data, sl, legacy)
  IN  IF fit_axis.kind # "view" THEN Raise(fit_axis.kind)
      ELSE [kind |-> "fit", g_init |-> g_init,
            fit_axis |-> Deref(h, fit_axis.v), fit_data |-> Deref(h, fit_data.v),
            weights |-> FitWeights(self)]

\* ------------------------------------------------------------------- state
VARIABLES
  heap,      \* the array buffers: heap[0] the data, heap[1], heap[2] axis buffers
  spectra,   \* the Spectrum objects held by the caller: S, and T (a kept slice of S or None)
  call,      \* the call in progress ([op |-> "idle"] between calls) with its arguments
  ret,       \* what the call returned or raised
  lookups,   \* the number of _qty_to_pixel calls the call made
  prev,      \* the previous shift_axis call and the receiver's axis before it
  nmut       \* the number of axis mutations so far

vars == <<heap, spectra, call, ret, lookups, prev, nmut>>

Idle == [op |-> "idle"]

AxisVals == {v \in 0..MaxAxis : Representable(v)}

\* A data profile with pairwise different samples.
Ramp(n) == [i \in 1..n |-> 10 + i]

\* The state after S = Spectrum(data, axis, axis_unit, uncertainty=..., mask=...).
Construct(data, axis, axis_unit, uncertainty, mask) ==
  /\ heap = [b \in 0..2 |-> IF b = DataBuf THEN data ELSE IF b = 1 THEN axis ELSE << >>]
  /\ spectra = [S |-> __init__(FullView(DataBuf, Len(data)), FullView(1, Len(axis)),
                               axis_unit, uncertainty, mask),
                T |-> None]
  /\ call = Idle
  /\ ret = None
  /\ lookups = 0
  /\ prev = None
  /\ nmut = 0

Init ==
  \E n \in 1..MaxLen : \E axis \in [1..n -> AxisVals] : \E axis_unit \in Units :
    Construct(Ramp(n), axis, axis_unit, None, None)

\* ------------------------------------------------------------------ inputs
Slice(start, stop, step) == [t |-> "slice", start |-> start, stop |-> stop, step |-> step]
TupleItem == [t |-> "tuple"]

Magnitudes == {v \in -1..(MaxAxis + 1) : Representable(v)}
Quantities(axis_unit) ==
  {q \in {Qty(v, u) : v \in Magnitudes, u \in Units} : Convertible(q, axis_unit)}

IntItems == {Int_(i) : i \in -(MaxLen + 1)..MaxLen}
FloatItems == {Float_(v) : v \in Magnitudes}

SliceInts == {Int_(i) : i \in -2..MaxLen} \cup {None}
Steps == {Int_(c) : c \in {-2, -1, 0, 1, 2}}
IntSlices == {Slice(a, b, c) : a \in SliceInts, b \in SliceInts, c \in Steps}

MixVals == {0, 2}
MixBounds(axis_unit) ==
  {None} \cup {Int_(v) : v \in MixVals} \cup {Float_(v) : v \in MixVals}
    \cup {q \in {Qty(v, u) : v \in MixVals, u \in Units} : Convertible(q, axis_unit)}
MixedSlices(axis_unit) ==
  {sl \in {Slice(a, b, c) : a \in MixBounds(axis_unit), b \in MixBounds(axis_unit),
                            c \in {Int_(1), Int_(2)}} :
     {sl.start.t, sl.stop.t} \cap {"float", "qty"} # {}}

BadSteps == {None, Float_(1), Qty(1, "L")}
BadStepSlices ==
  {Slice(a, b, c) : a \in {None, Int_(0), Qty(0, "L")},
                    b \in {None, Int_(2), Float_(2)}, c \in BadSteps}

Items(axis_unit) ==
  IntItems \cup FloatItems \cup Quantities(axis_unit) \cup IntSlices
    \cup MixedSlices(axis_unit) \cup BadStepSlices \cup {TupleItem, None}

\* The numpy builds that differ on the item: only an index or a slice bound
\* that is a float scalar is treated differently (legacy = TRUE: accepted).
UsesFloatIndex(item) ==
  \/ item.t \in {"float", "qty"}
  \/ item.t = "slice" /\ {item.start.t, item.stop.t} \cap {"float", "qty"} # {}
NumpyBuilds(item) == IF UsesFloatIndex(item) THEN BOOLEAN ELSE {TRUE}

\* ----------------------------------------------------------------- actions
\* x = S[item]
GetItem ==
  /\ call = Idle
  /\ \E item \in Items(spectra.S.axis_unit) : \E legacy \in NumpyBuilds(item) :
     \E r \in {__getitem__(heap, spectra.S, item, legacy)} :
       /\ call' = [op |-> "getitem", item |-> item, legacy |-> legacy]
       /\ ret' = IF r.ret.kind = "Spectrum"
                 THEN [kind |-> "Spectrum", obj |-> r.new] ELSE r.ret
       /\ lookups' = r.lookups
  /\ UNCHANGED <<heap, spectra, prev, nmut>>

\* x = S._qty_to_pixel(quantity)
QtyToPixel ==
  /\ call = Idle
  /\ \E quantity \in FloatItems \cup Quantities(spectra.S.axis_unit) \cup {None} :
       /\ call' = [op |-> "_qty_to_pixel", quantity |-> quantity]
       /\ ret' = _qty_to_pixel(heap, spectra.S, quantity)
       /\ lookups' = 1
  /\ UNCHANGED <<heap, spectra, prev, nmut>>

\* The caller drops what the call returned. prev remembers a shift_axis call
\* until the next call has returned.
Discard ==
  /\ call # Idle
  /\ call' = Idle
  /\ ret' = None
  /\ lookups' = 0
  /\ prev' = IF call.op = "shift_axis" THEN call ELSE None
  /\ UNCHANGED <<heap, spectra, nmut>>

NextIndex == GetItem \/ QtyToPixel \/ Discard

SpecIndex == Init /\ [][NextIndex]_vars

\* ------------------------------------------------------ claims: indexing
SData == Deref(heap, spectra.S.data)
SAxis == Deref(heap, spectra.S.axis)
SLen == spectra.S.data.len

IsGetItem(t) == call.op = "getitem" /\ call.item.t = t

\* The magnitude of an index or bound in the spectrum's own unit: a bare number
\* is read in that unit, a quantity is converted to it.
InAxisUnit(x) ==
  IF x.t = "qty"
  THEN Fl((x.v * UnitScale[x.unit]) \div UnitScale[spectra.S.axis_unit])
  ELSE x.v

\* The distance, as numpy computes it, from axis sample k (0-based) to value.
Dist(k, value) == Abs(Fl(SAxis[k + 1] - value))

\* k is the pixel index of the axis sample nearest to value (the first such).
IsNearestPixel(k, value) ==
  /\ k \in 0..(SLen - 1)
  /\ \A j \in 0..(SLen - 1) : Dist(k, value) <= Dist(j, value)
  /\ \A j \in 0..(k - 1) : Dist(j, value) > Dist(k, value)

NearestPixel(value) == CHOOSE k \in 0..(SLen - 1) : IsNearestPixel(k, value)

\* Python's seq[a:b:c] for integers a, b and c # 0, stated on the set of
\* selected positions (0-based).
Selected(n, a, b, c) ==
  LET na == IF a < 0 THEN a + n ELSE a
      nb == IF b < 0 THEN b + n ELSE b
      first == IF c > 0 THEN (IF na < 0 THEN 0 ELSE na)
               ELSE (IF na > n - 1 THEN n - 1 ELSE na)
  IN  IF c > 0
      THEN {i \in 0..(n - 1) : i >= first /\ i < nb /\ (i - first) % c = 0}
      ELSE {i \in 0..(n - 1) : i <= first /\ i > nb /\ (first - i) % (-c) = 0}

\* The k-th (1-based) selected position in the order the slice visits them.
Visit(sel, c, k) ==
  CHOOSE i \in sel :
    Cardinality({j \in sel : IF c > 0 THEN j < i ELSE j > i}) = k - 1

PySlice(seq, a, b, c) ==
  LET sel == Selected(Len(seq), a, b, c)
  IN  [k \in 1..Cardinality(sel) |-> seq[Visit(sel, c, k) + 1]]

\* The call returned a new Spectrum holding seq[a:b:c] of S.data and of S.axis.
ReturnsSlice(a, b, c) ==
  /\ ret.kind = "Spectrum"
  /\ Deref(heap, ret.obj.data) = PySlice(SData, a, b, c)
  /\ Deref(heap, ret.obj.axis) = PySlice(SAxis, a, b, c)
  /\ ret.obj.axis_unit = spectra.S.axis_unit

\* C6: for every integer i that is a valid position in S.data, S[i] is
\* S.data[i] (a negative i counting from the end), and the lookup leaves
\* S.data and S.axis unchanged.
C6_Value ==
  IsGetItem("int") /\ -SLen <= call.item.v /\ call.item.v < SLen
    => ret = Ret(SData[(IF call.item.v < 0 THEN call.item.v + SLen ELSE call.item.v) + 1])

C6_Frame == (call'.op = "getitem" /\ call'.item.t = "int") => UNCHANGED <<heap, spectra>>

\* C6: an integer index at a valid position returns that sample of S.data
\* (every state), and the lookup changes neither S.data nor S.axis (every step).
C6_IntIndex == []C6_Value /\ [][C6_Frame]_vars

\* The last sample of a spectrum of at least two samples was read by its
\* position.
C6_Witness ==
  /\ IsGetItem("int") /\ call.item.v = SLen - 1 /\ SLen >= 2
  /\ ret = Ret(SData[SLen])

\* C5: indexing with a tuple, or with a slice whose step is not a plain
\* integer, fails with an index error; for the slice no nearest-pixel lookup
\* was made before the failure; data, axis and axis_unit are left unchanged.
IsRejectedItem(item) ==
  \/ item.t = "tuple"
  \/ item.t = "slice" /\ item.step.t # "int"

C5_Raises ==
  call.op = "getitem" /\ IsRejectedItem(call.item)
    => ret = Raise("IndexError") /\ lookups = 0

C5_Frame == (call'.op = "getitem" /\ IsRejectedItem(call'.item)) => UNCHANGED <<heap, spectra>>

\* C5: a tuple index and a slice whose step is not a plain integer raise
\* IndexError with no nearest-pixel lookup made (every state), and leave data,
\* axis and axis_unit unchanged (every step).
C5_Rejected == []C5_Raises /\ [][C5_Frame]_vars

\* A slice with a quantity start and a float step was rejected.
C5_Witness ==
  /\ IsGetItem("slice") /\ call.item.step.t = "float" /\ call.item.start.t = "qty"
  /\ ret = Raise("IndexError")

\* C3: for plain integers a, b, c, S[a:b:c] is a new Spectrum with data
\* S.data[a:b:c], axis S.axis[a:b:c] and the axis_unit of S, the bounds being
\* used as pixel positions unchanged (no nearest-pixel lookup); with c = 0 it
\* raises ValueError, as S.data[a:b:0] does.
C3_IntSlice ==
  /\ IsGetItem("slice")
  /\ call.item.start.t = "int" /\ call.item.stop.t = "int" /\ call.item.step.t = "int"
  => IF call.item.step.v = 0 THEN ret = Raise("ValueError")
     ELSE /\ ReturnsSlice(call.item.start.v, call.item.stop.v, call.item.step.v)
          /\ lookups = 0

\* A reversed slice S[-1:0:-1] of a three-sample spectrum returned the last two
\* samples, last first.
C3_Witness ==
  /\ IsGetItem("slice")
  /\ call.item.start.t = "int" /\ call.item.stop.t = "int"
  /\ call.item.step = Int_(-1) /\ call.item.start.v = -1 /\ call.item.stop.v = 0
  /\ SLen = 3 /\ SAxis[3] # SAxis[2]
  /\ ret.kind = "Spectrum" /\ ret.obj.data.len = 2
  /\ Deref(heap, ret.obj.axis) = <<SAxis[3], SAxis[2]>>

\* C9: _qty_to_pixel(v) returns the axis value at the first index that
\* minimises |S.axis[k] - v| (v a bare number, or a quantity converted to
\* S.axis_unit), so _qty_to_pixel(S.axis[k]) = S.axis[k] for every k, also on
\* an unsorted axis or one with duplicates; S is not modified.
C9_Nearest ==
  call.op = "_qty_to_pixel" /\ call.quantity # None
    => /\ ret = Ret(NpFloat(SAxis[NearestPixel(InAxisUnit(call.quantity)) + 1]))
       /\ \A k \in 1..SLen :
            InAxisUnit(call.quantity) = SAxis[k] => ret.v.v = SAxis[k]

C9_Frame == call'.op = "_qty_to_pixel" => UNCHANGED <<heap, spectra>>

C1_NearestSample ==
  (IsGetItem("float") \/ IsGetItem("qty")) /\ call.legacy
    => ret = Ret(SData[NearestPixel(InAxisUnit(call.item)) + 1])

\* C2: for a slice with a quantity start in unit U, a plain integer stop n and
\* an integer step c, S[start:n:c] is a new Spectrum with data S.data[i:j:c],
\* axis S.axis[i:j:c] and the axis_unit of S, i and j the pixel indices of the
\* axis samples nearest to start and to n U. Stated for the builds whose numpy
\* accepts a float scalar as a slice bound.
C2_QtyStartIntStop ==
  /\ IsGetItem("slice") /\ call.legacy
  /\ call.item.start.t = "qty" /\ call.item.stop.t = "int"
  /\ call.item.step.t = "int" /\ call.item.step.v # 0
  => ReturnsSlice(NearestPixel(InAxisUnit(call.item.start)),
                  NearestPixel(InAxisUnit(Qty(call.item.stop.v, call.item.start.unit))),
                  call.item.step.v)

\* ------------------------------------------------- slices kept, mutation
\* Buffers no Spectrum refers to are reclaimed.
Collect(h, sp) ==
  [b \in DOMAIN h |->
     IF b = DataBuf \/ b = sp.S.axis.buf \/ (sp.T # None /\ b = sp.T.axis.buf)
     THEN h[b] ELSE << >>]

Other(recv) == IF recv = "S" THEN "T" ELSE "S"

\* An axis buffer the other Spectrum does not refer to.
FreshBuf(sp, recv) ==
  CHOOSE b \in AxisBufs : sp[Other(recv)] = None \/ sp[Other(recv)].axis.buf # b

KeptSlices ==
  {Slice(Int_(1), Int_(MaxLen), Int_(1)), Slice(Int_(0), Int_(MaxLen), Int_(2)),
   Slice(Int_(MaxLen), Int_(0), Int_(-1)), Slice(Float_(0), Float_(MaxAxis), Int_(1))}

\* T = S[item]
TakeSlice ==
  /\ call = Idle
  /\ \E item \in KeptSlices : \E legacy \in NumpyBuilds(item) :
     \E r \in {__getitem__(heap, spectra.S, item, legacy)} :
       /\ call' = [op |-> "getitem", item |-> item, legacy |-> legacy]
       /\ ret' = IF r.ret.kind = "Spectrum"
                 THEN [kind |-> "Spectrum", obj |-> r.new] ELSE r.ret
       /\ lookups' = r.lookups
       /\ spectra' = IF r.ret.kind = "Spectrum" THEN [spectra EXCEPT !.T = r.new]
                     ELSE spectra
       /\ heap' = Collect(heap, spectra')
  /\ UNCHANGED <<prev, nmut>>

Receivers == {recv \in {"S", "T"} : spectra[recv] # None}

ShiftOffsets(axis_unit) ==
  {Float_(v) : v \in {-MaxShift, 0, MaxShift}}
    \cup {q \in {Qty(v, u) : v \in {-2, 2}, u \in Units \ {axis_unit}} :
            Convertible(q, axis_unit)}

\* recv.shift_axis(offset)
ShiftAxis ==
  /\ call = Idle
  /\ nmut < MaxMut
  /\ \E recv \in Receivers : \E offset \in ShiftOffsets(spectra[recv].axis_unit) :
       /\ call' = [op |-> "shift_axis", recv |-> recv, offset |-> offset,
                   before |-> Deref(heap, spectra[recv].axis)]
       /\ heap' = shift_axis(heap, spectra[recv], offset)
  /\ ret' = None
  /\ lookups' = 0
  /\ nmut' = nmut + 1
  /\ UNCHANGED <<spectra, prev>>

\* recv.map_to_axis(fun)
MapToAxis ==
  /\ call = Idle
  /\ nmut < MaxMut
  /\ \E recv \in Receivers : \E fun \in Funs :
     \E newaxis \in {map_to_axis(heap, spectra[recv], fun)} :
     \E b \in {FreshBuf(spectra, recv)} :
       /\ call' = [op |-> "map_to_axis", recv |-> recv, fun |-> fun]
       /\ spectra' = [spectra EXCEPT ![recv].axis = FullView(b, Len(newaxis))]
       /\ heap' = Collect([heap EXCEPT ![b] = newaxis], spectra')
  /\ ret' = None
  /\ lookups' = 0
  /\ nmut' = nmut + 1
  /\ UNCHANGED prev

NextAxis == TakeSlice \/ ShiftAxis \/ MapToAxis \/ Discard

SpecAxis == Init /\ [][NextAxis]_vars

\* Only shift_axis calls on S.
NextShift == ShiftAxis \/ Discard

SpecShift == Init /\ [][NextShift]_vars

\* ------------------------------------------------------- claims: mutation
TAxis == Deref(heap, spectra.T.axis)

\* C4: after T = S[slice], an in-place axis mutation (shift_axis, map_to_axis)
\* of S leaves T.axis unchanged and one of T leaves S.axis unchanged.
C4_Step ==
  (call'.op \in {"shift_axis", "map_to_axis"} /\ spectra.T # None)
    => /\ call'.recv = "S" => TAxis' = TAxis
       /\ call'.recv = "T" => SAxis' = SAxis

\* C4: every in-place axis mutation of a spectrum leaves the axis of the other
\* one of S and its slice T unchanged.
C4_Independent == [][C4_Step]_vars

\* The offset of a shift_axis call as a magnitude in the receiver's unit.
OffsetIn(offset, axis_unit) ==
  IF offset.t = "qty"
  THEN Fl((offset.v * UnitScale[offset.unit]) \div UnitScale[axis_unit])
  ELSE offset.v

Negates(o1, o2) ==
  /\ o1.t = o2.t
  /\ o1.v = -o2.v
  /\ o1.t = "qty" => o1.unit = o2.unit

\* The call just made is shift_axis(-x), directly after shift_axis(x) on the
\* same Spectrum.
RoundTrip ==
  /\ call.op = "shift_axis" /\ prev # None
  /\ prev.recv = call.recv /\ Negates(call.offset, prev.offset)

RecvAxis == Deref(heap, spectra[call.recv].axis)

\* C7 as claimed: shift_axis(x) followed by shift_axis(-x) restores every axis
\* value to its original value, and shift_axis(0) leaves every axis value
\* unchanged.
C7_ExactRoundTrip ==
  /\ RoundTrip => RecvAxis = prev.before
  /\ call.op = "shift_axis" /\ call.offset.v = 0 => RecvAxis = call.before

\* C7 as amended: shift_axis(x) followed by shift_axis(-x) restores an axis
\* value a exactly when a + x is exactly representable in the axis's
\* floating-point format, and otherwise to within the rounding errors of the
\* two additions (half a unit in the last place each); shift_axis(0) leaves
\* every axis value unchanged; data and axis_unit are untouched.
C7_Rounded ==
  /\ RoundTrip =>
       \A i \in 1..Len(RecvAxis) :
         LET a == prev.before[i]
             d == OffsetIn(prev.offset, spectra[call.recv].axis_unit)
         IN  /\ Representable(a + d) => RecvAxis[i] = a
             /\ 2 * Abs(RecvAxis[i] - a) <= Ulp(a + d) + Ulp(Fl(a + d) - d)
  /\ call.op = "shift_axis" /\ call.offset.v = 0 => RecvAxis = call.before

C7_Frame ==
  call'.op = "shift_axis" => heap'[DataBuf] = heap[DataBuf] /\ spectra' = spectra

\* C7 as amended: the round trip restores the axis up to the rounding of the
\* two additions, exactly when the shifted values are representable (every
\* state), and shift_axis touches neither data nor axis_unit (every step).
C7_ShiftRoundTrip == []C7_Rounded /\ [][C7_Frame]_vars

\* A round trip with a quantity offset in another unit than the axis, in
\* which one sample moved and came back exactly and the sum of another was
\* rounded.
C7_Witness ==
  /\ RoundTrip /\ call.offset.t = "qty" /\ call.offset.unit # spectra.S.axis_unit
  /\ \E i \in 1..Len(RecvAxis) :
       RecvAxis[i] = prev.before[i] /\ call.before[i] # prev.before[i]
  /\ \E i \in 1..Len(RecvAxis) : RecvAxis[i] # prev.before[i]

\* ------------------------------------------------------------ line fitting
IncreasingAxes(n) ==
  {a \in [1..n -> AxisVals] : \A i \in 1..(n - 1) : a[i] < a[i + 1]}

\* Spectra to fit: any data over an increasing axis, with or without
\* uncertainty and mask.
InitFit ==
  \E n \in 1..MaxLen : \E data \in [1..n -> 0..MaxData] : \E axis \in IncreasingAxes(n) :
  \E axis_unit \in Units :
  \E uncertainty \in {None, Arr([i \in 1..n |-> i])} :
  \E mask \in {None} \cup {Arr(m) : m \in [1..n -> BOOLEAN]} :
    Construct(data, axis, axis_unit, uncertainty, mask)

Guess(amp, mean, stddev) == [amp |-> amp, mean |-> mean, stddev |-> stddev]
LineGuesses == {None, [g |-> Guess(1, 1, 1)]}
ExtraLines == {<< >>, <<Guess(1, 0, 1)>>}

RangeBounds(axis_unit) ==
  {Float_(0), Float_(MaxAxis)}
    \cup {q \in {Qty(2, u) : u \in Units} : Convertible(q, axis_unit)}
XRanges(axis_unit) ==
  {None} \cup {[lo |-> a, hi |-> b] : a \in RangeBounds(axis_unit),
                                      b \in RangeBounds(axis_unit)}

\* fit = S.gaussian_fit(line_guess, *extra_lines, x_range=x_range)
GaussianFit ==
  /\ call = Idle
  /\ \E line_guess \in LineGuesses : \E extra_lines \in ExtraLines :
     \E x_range \in XRanges(spectra.S.axis_unit) :
     \E legacy \in (IF x_range = None THEN {TRUE} ELSE BOOLEAN) :
       /\ call' = [op |-> "gaussian_fit", line_guess |-> line_guess,
                   extra_lines |-> extra_lines, x_range |-> x_range,
                   legacy |-> legacy]
       /\ ret' = gaussian_fit(heap, spectra.S, line_guess, extra_lines, x_range, legacy)
       /\ lookups' = IF x_range = None THEN 0 ELSE 2
  /\ UNCHANGED <<heap, spectra, prev, nmut>>

\* guess = S._make_line_guess()
MakeLineGuess ==
  /\ call = Idle
  /\ call' = [op |-> "_make_line_guess"]
  /\ ret' = Ret(_make_line_guess(heap, spectra.S))
  /\ lookups' = 0
  /\ UNCHANGED <<heap, spectra, prev, nmut>>

NextFit == GaussianFit \/ MakeLineGuess \/ Discard

SpecFit == InitFit /\ [][NextFit]_vars

\* ---------------------------------------------------- claims: line fitting
\* The first position (0-based) among cand where |data - amp/2| is smallest.
HalfMaxCrossing(cand) ==
  LET amp == SeqMax(SData)
      dev(i) == Abs(2 * SData[i + 1] - amp)
  IN  CHOOSE i \in cand :
        /\ \A j \in cand : dev(i) <= dev(j)
        /\ \A j \in cand : j < i => dev(j) > dev(i)

\* The position (0-based) of the first largest data sample.
PeakIndex ==
  CHOOSE p \in 0..(SLen - 1) :
    /\ \A j \in 1..SLen : SData[j] <= SData[p + 1]
    /\ \A j \in 1..p : SData[j] < SData[p + 1]

\* The profile is a clear single line: one largest sample, with samples on
\* both sides of it (what _make_line_guess is documented to work for).
SingleLine ==
  /\ 0 < PeakIndex /\ PeakIndex < SLen - 1
  /\ \A j \in 1..SLen : j # PeakIndex + 1 => SData[j] < SData[PeakIndex + 1]

\* C8: _make_line_guess returns (amp, mean, stddev): amp the largest data
\* value, mean the axis value at the peak index p, stddev = axis[r] - axis[l],
\* r the index in the whole array of the sample of least |data - amp/2| after
\* the peak (the last index if there is none), l that of the sample of least
\* |data - amp/2| before the peak (0 if there is none). Stated for the clear
\* single-line profiles.
C8_LineGuess ==
  call.op = "_make_line_guess" /\ SingleLine =>
    LET p == PeakIndex
        r == IF p + 1 <= SLen - 1 THEN HalfMaxCrossing((p + 1)..(SLen - 1))
             ELSE SLen - 1
        l == IF p >= 1 THEN HalfMaxCrossing(0..(p - 1)) ELSE 0
    IN  ret = Ret(Guess(SData[p + 1], SAxis[p + 1], Fl(SAxis[r + 1] - SAxis[l + 1])))

\* C10: when uncertainty is present, gaussian_fit hands the solver one weight
\* per sample of the fit domain (weights, fit axis and fit data have the same
\* length), 1/uncertainty for an unmasked sample and 0 for a masked one, with
\* and without x_range; uncertainty, mask, data and axis are not modified.
Masked(i) == spectra.S.mask # None /\ spectra.S.mask.a[i]

C10_Lengths ==
  call.op = "gaussian_fit" /\ spectra.S.uncertainty # None /\ ret.kind = "fit"
    => /\ Len(ret.weights.a) = Len(ret.fit_axis)
       /\ Len(ret.weights.a) = Len(ret.fit_data)

C10_Values ==
  /\ call.op = "gaussian_fit" /\ spectra.S.uncertainty # None /\ ret.kind = "fit"
  /\ call.x_range = None
  => \A i \in 1..SLen :
       ret.weights.a[i] = IF Masked(i) THEN Weight(0, 1)
                          ELSE Weight(1, spectra.S.uncertainty.a[i])

\* C10: the weights handed to the solver have the length of the fit domain
\* and the values 1/uncertainty, 0 where masked.
C10_Weights == C10_Lengths /\ C10_Values

====
